---- MODULE Spec2Model ----
(***************************************************************************)
(* Model of the request-time matching pipeline of the Smart CV and Job     *)
(* Matching Chatbot: scripts/search_script.py (smart_search_with_file and  *)
(* get_fuzzy_locations) together with the text extraction of               *)
(* scripts/resume_parser_util.py; the chat sessions of scripts/app.py that  *)
(* call it; the offline builds of scripts/metadata_cache_db.py and         *)
(* scripts/job_vector_db.py; and the entity loop of                        *)
(* scripts/resume_ner_bert.py.  Each has its own specification over the    *)
(* same variables.                                                         *)
(*                                                                         *)
(* Strings (locations, titles, queries, profile terms, experience levels,  *)
(* file paths) are sequences of one-character strings.  A Python reference *)
(* that may be None is None == <<>> or Some(x) == <<x>>.  A key the intent *)
(* dict lacks reads as None, as intent.get does.                           *)
(*                                                                         *)
(* The external services (document reader, NER model, intent extractor,    *)
(* vector store) are black boxes: what each will answer to this request is *)
(* chosen in the initial state and handed out by the step that calls it.   *)
(* Distances are fixed-point integers, d * DIST_SCALE; scores are          *)
(* score * SCORE_SCALE.                                                    *)
(***************************************************************************)
EXTENDS Integers, Sequences, FiniteSets, TLC

\* ------------------------------------------------------------------ bounds
MaxCache == 2       \* locations in the vocabulary cache
MaxTerms == 1       \* terms per profile list returned by the NER extractor
MaxHits == 2        \* hits the vector store answers with (n_results caps it)
MaxPrompts == 2     \* prompts a browser session submits
MaxPostings == 2    \* rows of postings.csv
MaxEntities == 2    \* entities the NER model emits for a resume
MaxTokens == 4      \* tokens of the text handed to _chunk_text
MaxChunk == 3       \* largest max_tokens handed to _chunk_text

\* --------------------------------------------------------------- constants
CONFIDENCE_THRESHOLD == 50   \* 0.5, scores being score * 100
UNIQUE_MIN_LEN == 2     \* min_len=2 of the four calls of _unique
BATCH_SIZE == 100       \* batch_size of the ingestion loop
N_RESULTS == 5          \* n_results passed to collection.query
RESUME_PREFIX == 2000   \* resume_text[:2000]
MIN_TERM_LEN == 2       \* len(s) > 2
DIST_SCALE == 100000    \* a distance d is the integer d * 10^5
SCORE_SCALE == 100      \* a score s is the integer s * 10^2 (round(_, 2))

\* ----------------------------------------------------------------- strings
None == <<>>
Some(x) == <<x>>

\* str.lower(), character by character, on the characters the model uses
LowerChar(c) ==
  CASE c = "B" -> "b"
    [] c = "D" -> "d"
    [] c = "E" -> "e"
    [] c = "F" -> "f"
    [] c = "G" -> "g"
    [] c = "K" -> "k"
    [] c = "M" -> "m"
    [] c = "N" -> "n"
    [] c = "O" -> "o"
    [] c = "P" -> "p"
    [] c = "S" -> "s"
    [] c = "U" -> "u"
    [] c = "W" -> "w"
    [] c = "Y" -> "y"
    [] OTHER -> c

Lower(s) == [i \in 1..Len(s) |-> LowerChar(s[i])]

\* Python's `a in b` on strings
Contains(b, a) ==
  \E i \in 0..(Len(b) - Len(a)) : SubSeq(b, i + 1, i + Len(a)) = a

\* s[:n]
Prefix(s, n) == SubSeq(s, 1, IF Len(s) < n THEN Len(s) ELSE n)

\* s.split('.')[-1]
RECURSIVE LastDotPart(_)
LastDotPart(s) ==
  IF s = <<>> THEN <<>>
  ELSE IF s[Len(s)] = "." THEN <<>>
  ELSE Append(LastDotPart(SubSeq(s, 1, Len(s) - 1)), s[Len(s)])

\* sep.join(list)
RECURSIVE Join(_, _)
Join(sep, l) ==
  IF l = <<>> THEN <<>>
  ELSE IF Len(l) = 1 THEN l[1]
  ELSE l[1] \o sep \o Join(sep, Tail(l))

\* Python truthiness of an optional string: None and "" are falsy
Truthy(o) == o # None /\ o[1] # <<>>

\* " ".join(s.split()).strip(), with " " the only whitespace character
FirstWordLen(s) ==
  IF \E i \in 1..Len(s) : s[i] = " "
  THEN (CHOOSE i \in 1..Len(s) : s[i] = " " /\ \A j \in 1..(i - 1) : s[j] # " ") - 1
  ELSE Len(s)

RECURSIVE Words(_)
Words(s) ==
  IF s = <<>> THEN <<>>
  ELSE IF s[1] = " " THEN Words(Tail(s))
  ELSE <<SubSeq(s, 1, FirstWordLen(s))>> \o Words(SubSeq(s, FirstWordLen(s) + 1, Len(s)))

_normalize(s) == Join(<<" ">>, Words(s))

\* code points of the characters of cached locations (ordering of sorted())
CharCode(c) ==
  CASE c = "K" -> 75
    [] c = "N" -> 78
    [] c = "O" -> 79
    [] c = "U" -> 85
    [] c = "W" -> 87
    [] c = "y" -> 121

RECURSIVE StrLess(_, _)
StrLess(a, b) ==
  IF b = <<>> THEN FALSE
  ELSE IF a = <<>> THEN TRUE
  ELSE IF CharCode(a[1]) # CharCode(b[1]) THEN CharCode(a[1]) < CharCode(b[1])
  ELSE StrLess(Tail(a), Tail(b))

\* sequences over S of length at most n
SeqUpTo(S, n) == UNION {[1..k -> S] : k \in 0..n}

\* ------------------------------------------------------------------- state
VARIABLES
  file_path, additional_query, NER_applied,  \* arguments of smart_search_with_file
  UNIQUE_LOCATIONS,                          \* module state loaded from metadata_cache.json
  doc_text,      \* environment: the text the document at file_path holds
  ner_reply,     \* environment: what the NER model extracts from a non-empty text
  llm_reply,     \* environment: the JSON object the intent extractor answers with
  store_reply,   \* environment: the distances of the hits the vector store answers with
  ner_fault,     \* environment: "none", "load" (model cannot be loaded), "inference"
  llm_fault,     \* environment: "none", "APIError", "APITimeoutError", "JSONDecodeError"
  store_fault,   \* environment: "none", "StoreError"
  pc,
  resume_text, ner_output, roles, skills, education, locations,
  combined_input, intent,
  where_clauses, final_where,
  base_query, rich_query,
  results, scores, ret,
  exc,                   \* the exception that left smart_search_with_file, if any
  ner_calls, llm_calls,  \* number of calls made to each extractor
  store_requests,        \* the requests sent to collection.query, in order
  trace,                 \* the stages this invocation has started, in order
  fuzzy_arg, fuzzy_ret,  \* argument and result of a call of get_fuzzy_locations
  \* app.py, one script run per browser session
  uploaded_file,   \* per session: the upload in the sidebar, None or Some([name, text])
  pending,         \* per session: the prompts the user has still to submit
  prompt,          \* per session: the prompt being handled
  messages,        \* per session: st.session_state.messages
  temp_resume,     \* the file "temp_resume" of the working directory, shared
  app_pc,          \* per session: position in the script run
  sess_text,       \* per session: resume_text of its call of smart_search_with_file
  sess_out,        \* per session: how that call ended
  svc,             \* per session, environment: what the services answer to that call
  shown,           \* per session: what the assistant bubble of each prompt showed
  runs,            \* per session: calls of smart_search_with_file made
  \* metadata_cache_db.py and job_vector_db.py, run once over postings.csv
  postings,        \* the location cell of each row, None where the cell is empty
  cache_file,      \* "locations" of metadata_cache.json, None until generated
  collection_meta, \* the location metadata of the postings added to the collection
  ingest_i,        \* rows the ingestion loop has passed
  \* resume_ner_bert.py, one call of parse_resume_ner_bert on a text with content
  ner_items,       \* environment: the entities the model emits, chunk after chunk
  max_roles, max_skills,  \* arguments of the call
  ner_i,           \* entities the loop has passed
  collected,       \* the four lists as collected so far
  ner_profile,     \* the dict returned, None before the return
  \* resume_ner_bert.py, one call of _chunk_text
  tokens,          \* environment: tokenizer.encode(text), a text being its tokens
  max_tokens, overlap,   \* arguments of the call
  start,           \* start of the loop
  chunks,          \* chunks of the loop
  chunk_starts,    \* the value of start at which each chunk was appended
  chunk_ret,       \* the list returned, None before the return
  history          \* the earlier invocations of this process: inputs and filter sent

args == <<file_path, additional_query, NER_applied>>
env == <<UNIQUE_LOCATIONS, doc_text, ner_reply, llm_reply, store_reply,
         ner_fault, llm_fault, store_fault>>
locals == <<resume_text, ner_output, roles, skills, education, locations, combined_input,
            intent, where_clauses, final_where, base_query, rich_query,
            results, scores, ret, exc>>
calls == <<ner_calls, llm_calls, store_requests, trace>>
fuzzy == <<fuzzy_arg, fuzzy_ret>>
app == <<uploaded_file, pending, prompt, messages, temp_resume, app_pc, sess_text,
         sess_out, svc, shown, runs>>
ingest == <<postings, cache_file, collection_meta, ingest_i>>
nerh == <<ner_items, max_roles, max_skills, ner_i, collected, ner_profile>>
chunking == <<tokens, max_tokens, overlap, start, chunks, chunk_starts, chunk_ret>>
offline == <<ingest, nerh, chunking>>
rest == <<app, offline, history>>
vars == <<args, env, pc, locals, calls, fuzzy, rest>>

\* ------------------------------------------------- resume_parser_util.py
\* the text of the file whatever its extension
extract_text_from_file_AnyExtension(path, text) == text

extract_text_from_file(path, text) ==
  LET ext == Lower(LastDotPart(path)) IN
  IF ext = <<"p", "d", "f">> THEN text
  ELSE IF ext \in {<<"d", "o", "c", "x">>, <<"d", "o", "c">>} THEN text
  ELSE <<>>

\* ---------------------------------------------------- resume_ner_bert.py
EmptyProfile == [roles |-> <<>>, skills |-> <<>>, education |-> <<>>, locations |-> <<>>]

\* the early return of parse_resume_ner_bert; otherwise the model's output
parse_resume_ner(text, reply) ==
  IF _normalize(text) = <<>> THEN EmptyProfile ELSE reply

\* str.strip(chars)
RECURSIVE LStrip(_, _)
LStrip(s, chars) ==
  IF s # <<>> /\ s[1] \in chars THEN LStrip(Tail(s), chars) ELSE s

RECURSIVE RStrip(_, _)
RStrip(s, chars) ==
  IF s # <<>> /\ s[Len(s)] \in chars THEN RStrip(SubSeq(s, 1, Len(s) - 1), chars) ELSE s

Strip(s, chars) == RStrip(LStrip(s, chars), chars)

\* str.split(sep) for a one-character separator
RECURSIVE Split(_, _)
Split(s, sep) ==
  IF \A i \in 1..Len(s) : s[i] # sep THEN <<s>>
  ELSE LET i == CHOOSE k \in 1..Len(s) : s[k] = sep /\ \A j \in 1..(k - 1) : s[j] # sep
       IN <<SubSeq(s, 1, i - 1)>> \o Split(SubSeq(s, i + 1, Len(s)), sep)

\* the token the tokenizer encodes an unknown word as; it is a special token
UNK == "[UNK]"

\* tokens[a:b]
Slice(s, a, b) == SubSeq(s, a + 1, IF b < Len(s) THEN b ELSE Len(s))

\* tokenizer.decode(chunk_tokens, skip_special_tokens=True): the text of the
\* tokens that are not special
decode(chunk_tokens) == SelectSeq(chunk_tokens, LAMBDA t : t # UNK)

\* the characters of strip(".,; ")
STRIP_CHARS == {".", ",", ";", " "}

LABEL_TO_KEY ==
  [l \in {"Designation", "Skills", "Degree", "College Name", "Location"} |->
     CASE l = "Designation" -> "roles"
       [] l = "Skills" -> "skills"
       [] l = "Degree" -> "education"
       [] l = "College Name" -> "education"
       [] l = "Location" -> "locations"]

\* label.replace("B-", "").replace("I-", "").strip(), on the labels of the model
Untagged(label) ==
  CASE label \in {"B-Designation", "I-Designation"} -> "Designation"
    [] label \in {"B-Skills", "I-Skills"} -> "Skills"
    [] label \in {"B-Degree", "I-Degree"} -> "Degree"
    [] label \in {"B-College Name", "I-College Name"} -> "College Name"
    [] label \in {"B-Location", "I-Location"} -> "Location"
    [] OTHER -> label

_label_to_key(label) ==
  IF label = "" THEN None
  ELSE IF label \in DOMAIN LABEL_TO_KEY THEN Some(LABEL_TO_KEY[label])
  ELSE IF Untagged(label) \in DOMAIN LABEL_TO_KEY THEN Some(LABEL_TO_KEY[Untagged(label)])
  ELSE None

SKILLS_BLOCKLIST ==
  {<<"s", "k", "i", "l", "l", "s">>,
   <<"e", "d", "u", "c", "a", "t", "i", "o", "n">>,
   <<"l", "e", "a", "r", "n", "i", "n", "g", " ", "e", "d", "u", "c", "a", "t", "i", "o", "n">>,
   <<",">>, <<>>}

STATE_CODES ==
  {<<"m", "a">>, <<"c", "a">>, <<"n", "y">>, <<"t", "x">>, <<"f", "l">>, <<"i", "l">>,
   <<"p", "a">>, <<"o", "h">>, <<"g", "a">>, <<"n", "c">>, <<"m", "i">>, <<"n", "j">>,
   <<"v", "a">>, <<"w", "a">>, <<"a", "z">>, <<"c", "o">>, <<"o", "r">>, <<"t", "n">>,
   <<"m", "o">>, <<"m", "d">>}

\* the words a Location entity is dropped for
LOCATION_NOISE ==
  {<<"p", "y", "t", "h", "o", "n">>, <<"j", "a", "v", "a">>, <<"s", "q", "l">>,
   <<"a", "w", "s">>, <<"c", "a">>}

\* _unique deduplicating on the entry as spelled
_unique_CaseSensitive(lst, min_len) ==
  LET n == [i \in 1..Len(lst) |-> <<i, _normalize(lst[i])>>]
      kept == SelectSeq(n, LAMBDA e : /\ Len(e[2]) >= min_len
                                      /\ \A j \in 1..(e[1] - 1) : n[j][2] # e[2])
  IN [k \in 1..Len(kept) |-> kept[k][2]]

\* _unique(lst, min_len): normalised, entries shorter than min_len skipped,
\* an entry whose lower-cased form was seen before skipped
_unique(lst, min_len) ==
  LET n == [i \in 1..Len(lst) |-> <<i, _normalize(lst[i])>>]
      kept == SelectSeq(n, LAMBDA e : /\ Len(e[2]) >= min_len
                                      /\ \A j \in 1..(e[1] - 1) :
                                           Len(n[j][2]) >= min_len
                                             => Lower(n[j][2]) # Lower(e[2]))
  IN [k \in 1..Len(kept) |-> kept[k][2]]

\* the body of the loop over the entities of a chunk: what one entity adds to
\* the collected lists
collect(acc, item) ==
  LET word == Strip(_normalize(item.word), STRIP_CHARS)
      key == _label_to_key(item.entity_group)
      parts == Split(word, ",")
      cleaned == [k \in 1..Len(parts) |-> Strip(_normalize(parts[k]), STRIP_CHARS)]
  IN IF item.score < CONFIDENCE_THRESHOLD THEN acc
     ELSE IF word = <<>> \/ key = None THEN acc
     ELSE IF key[1] = "locations" /\ Lower(word) \in LOCATION_NOISE THEN acc
     ELSE IF key[1] = "education" /\ Lower(word) \in STATE_CODES THEN acc
     ELSE IF key[1] = "skills"
     THEN IF Lower(word) \in SKILLS_BLOCKLIST \/ Len(word) < 2 THEN acc
          ELSE [acc EXCEPT !.skills = @ \o SelectSeq(cleaned,
                  LAMBDA q : Len(q) >= 2 /\ Lower(q) \notin SKILLS_BLOCKLIST)]
     ELSE [acc EXCEPT ![key[1]] = Append(@, word)]

\* -------------------------------- metadata_cache_db.py, job_vector_db.py
\* the value fillna("UNKNOWN") puts into an empty cell
UNKNOWN == <<"U", "N", "K", "N", "O", "W", "N">>

\* DataFrame.fillna(value), on one cell
fillna(cell, value) == IF cell = None THEN value ELSE cell[1]

\* sorted(column.unique().tolist())
SortedUnique(S) ==
  CHOOSE c \in [1..Cardinality(S) -> S] :
    \A i, j \in 1..Cardinality(S) : i < j => StrLess(c[i], c[j])

\* ------------------------------------------------------- groq_prompter.py
VALID_EXPERIENCE ==
  {<<"E", "n", "t", "r", "y", " ", "l", "e", "v", "e", "l">>,
   <<"A", "s", "s", "o", "c", "i", "a", "t", "e">>,
   <<"M", "i", "d", "-", "S", "e", "n", "i", "o", "r", " ", "l", "e", "v", "e", "l">>,
   <<"D", "i", "r", "e", "c", "t", "o", "r">>,
   <<"E", "x", "e", "c", "u", "t", "i", "v", "e">>,
   <<"I", "n", "t", "e", "r", "n", "s", "h", "i", "p">>}

VALID_WORK_TYPES ==
  {<<"F", "U", "L", "L", "_", "T", "I", "M", "E">>,
   <<"C", "O", "N", "T", "R", "A", "C", "T">>,
   <<"P", "A", "R", "T", "_", "T", "I", "M", "E">>,
   <<"T", "E", "M", "P", "O", "R", "A", "R", "Y">>,
   <<"I", "N", "T", "E", "R", "N", "S", "H", "I", "P">>,
   <<"V", "O", "L", "U", "N", "T", "E", "E", "R">>}

\* ------------------------------------------------------ search_script.py
\* get_fuzzy_locations comparing the cached location as stored, not lower-cased
get_fuzzy_locations_CaseSensitive(user_loc, cache) ==
  IF ~Truthy(user_loc) THEN <<>>
  ELSE SelectSeq(cache, LAMBDA loc : Contains(loc, Lower(user_loc[1])))

get_fuzzy_locations(user_loc, cache) ==
  IF ~Truthy(user_loc) THEN <<>>
  ELSE SelectSeq(cache, LAMBDA loc : Contains(Lower(loc), Lower(user_loc[1])))

\* [s for s in ner_output.get(key, []) if len(s) > 2]
LongTerms(l) == SelectSeq(l, LAMBDA s : Len(s) > MIN_TERM_LEN)

\* STEP C: the clauses in the order the code appends them
ExperienceClause(i) ==
  IF Truthy(i.experience) THEN <<[experience |-> i.experience[1]]>> ELSE <<>>

WorkTypeClause(i) ==
  IF Truthy(i.work_type) THEN <<[work_type |-> i.work_type[1]]>> ELSE <<>>

\* LocationClause without the `if loc_variations:` test
LocationClause_Unchecked(i, cache) ==
  IF Truthy(i.location)
  THEN <<[location |-> [in |-> get_fuzzy_locations(i.location, cache)]]>>
  ELSE <<>>

LocationClause(i, cache) ==
  IF Truthy(i.location)
  THEN LET loc_variations == get_fuzzy_locations(i.location, cache) IN
       IF loc_variations # <<>> THEN <<[location |-> [in |-> loc_variations]]>> ELSE <<>>
  ELSE <<>>

\* STEP C with a clause for the company as well
WhereClauses_WithCompany(i, cache) ==
  ExperienceClause(i) \o WorkTypeClause(i) \o LocationClause(i, cache)
    \o (IF Truthy(i.company) THEN <<[company |-> i.company[1]]>> ELSE <<>>)

WhereClauses(i, cache) ==
  ExperienceClause(i) \o WorkTypeClause(i) \o LocationClause(i, cache)

\* FinalWhere wrapping a single clause in $and as well
FinalWhere_AndOfOne(clauses) ==
  IF Len(clauses) >= 1 THEN Some([and |-> clauses]) ELSE None

FinalWhere(clauses) ==
  IF Len(clauses) > 1 THEN Some([and |-> clauses])
  ELSE IF Len(clauses) = 1 THEN Some(clauses[1])
  ELSE None

\* STEP D: intent.get("title") or additional_query or ""
BaseQuery(i, query) ==
  IF Truthy(i.title) THEN i.title[1]
  ELSE IF query # <<>> THEN query
  ELSE <<>>

\* RichQuery joining the boost whether or not NER_applied is set
RichQuery_AlwaysFused(base, ner, r, s, e, l) ==
  base \o <<" ">> \o Join(<<" ">>, r \o s \o e \o l)

\* RichQuery with the skills ahead of the roles
RichQuery_SkillsFirst(base, ner, r, s, e, l) ==
  IF ner THEN base \o <<" ">> \o Join(<<" ">>, s \o r \o e \o l)
  ELSE base

RichQuery(base, ner, r, s, e, l) ==
  IF ner THEN base \o <<" ">> \o Join(<<" ">>, r \o s \o e \o l)
  ELSE base

\* round(x, 2) of x = n / k: the nearest multiple of 0.01; when x lies on a
\* tie in decimal, the binary value of x decides, so either neighbour
RoundOutcomes(n, k) ==
  LET q == n \div k
      r == n % k
  IN IF 2 * r < k THEN {q}
     ELSE IF 2 * r > k THEN {q + 1}
     ELSE {q, q + 1}

\* the score clamped into [0, 100]
ScoreOutcomes_Clamped(d) ==
  {IF x < 0 THEN 0 ELSE IF x > 100 * SCORE_SCALE THEN 100 * SCORE_SCALE ELSE x :
     x \in RoundOutcomes((DIST_SCALE - d) * 100 * SCORE_SCALE, DIST_SCALE)}

\* round((1 - distance) * 100, 2), distance = d / DIST_SCALE, score * SCORE_SCALE
ScoreOutcomes(d) ==
  RoundOutcomes((DIST_SCALE - d) * 100 * SCORE_SCALE, DIST_SCALE)

\* the scores of the hits: round is a function, equal distances score equally
ScoreSeqs(dists) ==
  {f \in [1..Len(dists) -> UNION {ScoreOutcomes(dists[i]) : i \in 1..Len(dists)}] :
     /\ \A i \in 1..Len(dists) : f[i] \in ScoreOutcomes(dists[i])
     /\ \A i, j \in 1..Len(dists) : dists[i] = dists[j] => f[i] = f[j]}

\* STEPS B to E of an invocation without fusion whose store error is taken
\* for an empty result
smart_search_StoreErrorIsEmpty(text, query, cache, service) ==
  LET where == FinalWhere(WhereClauses(service.llm_reply, cache))
      rich == RichQuery(BaseQuery(service.llm_reply, query), FALSE, <<>>, <<>>, <<>>, <<>>)
      request == [query_texts |-> <<rich>>, n_results |-> N_RESULTS, where |-> where]
      combined == [resume |-> Prefix(text, RESUME_PREFIX), preferences |-> query]
  IN IF service.llm_fault # "none"
     THEN [kind |-> "raised", exc |-> Some(service.llm_fault), results |-> None,
           intent |-> None, combined_input |-> combined, request |-> None]
     ELSE IF service.store_fault # "none" \/ service.store_reply = <<>>
     THEN [kind |-> "returned", exc |-> None, results |-> None,
           intent |-> Some(service.llm_reply), combined_input |-> combined,
           request |-> Some(request)]
     ELSE [kind |-> "returned", exc |-> None,
           results |-> Some([ids |-> [i \in 1..Len(service.store_reply) |-> i],
                             distances |-> service.store_reply]),
           intent |-> Some(service.llm_reply), combined_input |-> combined,
           request |-> Some(request)]

\* STEPS B to E of smart_search_with_file(path, query), NER_applied left False,
\* as one function of the extracted text, the query, the location cache and
\* what the services answer: how the call ends and what it hands back
smart_search(text, query, cache, service) ==
  LET where == FinalWhere(WhereClauses(service.llm_reply, cache))
      rich == RichQuery(BaseQuery(service.llm_reply, query), FALSE, <<>>, <<>>, <<>>, <<>>)
      request == [query_texts |-> <<rich>>, n_results |-> N_RESULTS, where |-> where]
      combined == [resume |-> Prefix(text, RESUME_PREFIX), preferences |-> query]
  IN IF service.llm_fault # "none"
     THEN [kind |-> "raised", exc |-> Some(service.llm_fault), results |-> None,
           intent |-> None, combined_input |-> combined, request |-> None]
     ELSE IF service.store_fault # "none"
     THEN [kind |-> "raised", exc |-> Some(service.store_fault), results |-> None,
           intent |-> Some(service.llm_reply), combined_input |-> combined,
           request |-> Some(request)]
     ELSE IF service.store_reply = <<>>
     THEN [kind |-> "returned", exc |-> None, results |-> None,
           intent |-> Some(service.llm_reply), combined_input |-> combined,
           request |-> Some(request)]
     ELSE [kind |-> "returned", exc |-> None,
           results |-> Some([ids |-> [i \in 1..Len(service.store_reply) |-> i],
                             distances |-> service.store_reply]),
           intent |-> Some(service.llm_reply), combined_input |-> combined,
           request |-> Some(request)]

\* ------------------------------------------------------------------ app.py
\* the name the upload is saved under and the pipeline is called with
TempPath == <<"t", "e", "m", "p", "_", "r", "e", "s", "u", "m", "e">>

\* the browser sessions open at the same time, one script run each
Sessions == {1, 2}

NoMatchesMessage ==
  <<"I analyzed your request but couldn't find strong matches. Try a broader query or different filters.">>

FoundMessage ==
  <<"I found some matches for you based on your resume and query. Explore the roles above.">>

\* what an invocation and the one after it may be given
TwiceQueries == {<<>>, <<"j", "o", "b", "s">>}

TwiceProfiles ==
  {EmptyProfile,
   [roles |-> <<<<"E", "n", "g", "i", "n", "e", "e", "r">>>>, skills |-> <<>>,
    education |-> <<>>, locations |-> <<<<"N", "y", "c">>>>]}

TwiceIntents ==
  [title : {None, Some(<<"D", "e", "v">>)},
   location : {None, Some(<<"n">>)},
   experience : {None, Some(<<"D", "i", "r", "e", "c", "t", "o", "r">>)},
   work_type : {None},
   company : {None, Some(<<"G", "o", "o", "g", "l", "e">>)}]

\* ----------------------------------------------------------------- actions
\* STEP A: resume_text = extract_text_from_file(file_path)
StepA_ExtractText ==
  /\ pc = "A"
  /\ resume_text' = extract_text_from_file(file_path, doc_text)
  /\ trace' = Append(trace, "text")
  /\ pc' = IF NER_applied THEN "NER" ELSE "B"
  /\ UNCHANGED <<args, env, fuzzy, rest, ner_output, roles, skills, education, locations,
                 combined_input, intent, where_clauses, final_where, base_query, rich_query,
                 results, scores, ret, exc, ner_calls, llm_calls, store_requests>>

\* if NER_applied: ner_output = parse_resume_ner(resume_text) and the four
\* lists.  A text that is not blank needs the model: _get_pipeline raises
\* RuntimeError when it cannot be loaded, and a chunk whose inference raises
\* is skipped, so no entity is collected when every chunk fails.
StepA_NER ==
  /\ pc = "NER"
  /\ ner_calls' = ner_calls + 1
  /\ trace' = Append(trace, "profile")
  /\ IF _normalize(resume_text) # <<>> /\ ner_fault = "load"
     THEN /\ exc' = Some("RuntimeError")
          /\ pc' = "raised"
          /\ UNCHANGED <<ner_output, roles, skills, education, locations>>
     ELSE /\ ner_output' = Some(parse_resume_ner(resume_text,
                 IF ner_fault = "inference" THEN EmptyProfile ELSE ner_reply))
          /\ roles' = LongTerms(ner_output'[1].roles)
          /\ skills' = LongTerms(ner_output'[1].skills)
          /\ education' = LongTerms(ner_output'[1].education)
          /\ locations' = LongTerms(ner_output'[1].locations)
          /\ pc' = "B"
          /\ UNCHANGED exc
  /\ UNCHANGED <<args, env, fuzzy, rest, resume_text, combined_input, intent, where_clauses,
                 final_where, base_query, rich_query, results, scores, ret,
                 llm_calls, store_requests>>

\* STEP B: intent = get_filter_json(combined_input).  The call is not
\* guarded: an API error, a timeout of the client and a reply json.loads
\* rejects all raise out of the pipeline.
StepB_Intent ==
  /\ pc = "B"
  /\ combined_input' = [resume |-> Prefix(resume_text, RESUME_PREFIX),
                        preferences |-> additional_query]
  /\ llm_calls' = llm_calls + 1
  /\ trace' = Append(trace, "intent")
  /\ IF llm_fault # "none"
     THEN /\ exc' = Some(llm_fault)
          /\ pc' = "raised"
          /\ UNCHANGED intent
     ELSE /\ intent' = llm_reply
          /\ pc' = "C"
          /\ UNCHANGED exc
  /\ UNCHANGED <<args, env, fuzzy, rest, resume_text, ner_output, roles, skills, education,
                 locations, where_clauses, final_where, base_query, rich_query, results,
                 scores, ret, ner_calls, store_requests>>

\* STEP C consuming the experience it has turned into a clause
StepC_Filter_ConsumesIntent ==
  /\ pc = "C"
  /\ where_clauses' = WhereClauses(intent, UNIQUE_LOCATIONS)
  /\ final_where' = FinalWhere(where_clauses')
  /\ intent' = [intent EXCEPT !.experience = None]
  /\ trace' = trace \o <<"locations", "filter">>
  /\ pc' = "D"
  /\ UNCHANGED <<args, env, fuzzy, rest, resume_text, ner_output, roles, skills, education,
                 locations, combined_input, base_query, rich_query, results,
                 scores, ret, exc, ner_calls, llm_calls, store_requests>>

\* STEP C: where_clauses (fuzzy location expansion last) and final_where
StepC_Filter ==
  /\ pc = "C"
  /\ where_clauses' = WhereClauses(intent, UNIQUE_LOCATIONS)
  /\ final_where' = FinalWhere(where_clauses')
  /\ trace' = trace \o <<"locations", "filter">>
  /\ pc' = "D"
  /\ UNCHANGED <<args, env, fuzzy, rest, resume_text, ner_output, roles, skills, education,
                 locations, combined_input, intent, base_query, rich_query, results,
                 scores, ret, exc, ner_calls, llm_calls, store_requests>>

\* STEP D: base_query and rich_query
StepD_Query ==
  /\ pc = "D"
  /\ base_query' = BaseQuery(intent, additional_query)
  /\ rich_query' = RichQuery(base_query', NER_applied, roles, skills, education, locations)
  /\ trace' = Append(trace, "query")
  /\ pc' = "E"
  /\ UNCHANGED <<args, env, fuzzy, rest, resume_text, ner_output, roles, skills, education,
                 locations, combined_input, intent, where_clauses, final_where, results,
                 scores, ret, exc, ner_calls, llm_calls, store_requests>>

\* STEP E sending its request a second time before it reads the reply
StepE_Search_Again ==
  /\ pc = "E"
  /\ store_requests' = Append(store_requests,
       [query_texts |-> <<rich_query>>, n_results |-> N_RESULTS, where |-> final_where])
  /\ trace' = Append(trace, "search")
  /\ IF store_fault # "none"
     THEN /\ exc' = Some(store_fault)
          /\ pc' = "raised"
          /\ UNCHANGED results
     ELSE /\ results' = Some([ids |-> [i \in 1..Len(store_reply) |-> i],
                              distances |-> store_reply])
          /\ pc' = IF store_requests = <<>> THEN "E" ELSE "OUT"
          /\ UNCHANGED exc
  /\ UNCHANGED <<args, env, fuzzy, rest, resume_text, ner_output, roles, skills, education,
                 locations, combined_input, intent, where_clauses, final_where, base_query,
                 rich_query, scores, ret, ner_calls, llm_calls>>

\* STEP E: results = collection.query(query_texts=[rich_query], n_results=5,
\* where=final_where); an error of the store raises out of the pipeline
StepE_Search ==
  /\ pc = "E"
  /\ store_requests' = Append(store_requests,
       [query_texts |-> <<rich_query>>, n_results |-> N_RESULTS, where |-> final_where])
  /\ trace' = Append(trace, "search")
  /\ IF store_fault # "none"
     THEN /\ exc' = Some(store_fault)
          /\ pc' = "raised"
          /\ UNCHANGED results
     ELSE /\ results' = Some([ids |-> [i \in 1..Len(store_reply) |-> i],
                              distances |-> store_reply])
          /\ pc' = "OUT"
          /\ UNCHANGED exc
  /\ UNCHANGED <<args, env, fuzzy, rest, resume_text, ner_output, roles, skills, education,
                 locations, combined_input, intent, where_clauses, final_where, base_query,
                 rich_query, scores, ret, ner_calls, llm_calls>>

\* the empty branch handing back the results dict instead of None
ReturnNoMatches_ReturnsResults ==
  /\ pc = "OUT"
  /\ results[1].ids = <<>>
  /\ ret' = Some(<<results, intent>>)
  /\ pc' = "done"
  /\ UNCHANGED <<args, env, fuzzy, rest, resume_text, ner_output, roles, skills, education,
                 locations, combined_input, intent, where_clauses, final_where, base_query,
                 rich_query, results, scores, exc, calls>>

\* if not results["ids"][0]: return None, intent
ReturnNoMatches ==
  /\ pc = "OUT"
  /\ results[1].ids = <<>>
  /\ ret' = Some(<<None, intent>>)
  /\ pc' = "done"
  /\ UNCHANGED <<args, env, fuzzy, rest, resume_text, ner_output, roles, skills, education,
                 locations, combined_input, intent, where_clauses, final_where, base_query,
                 rich_query, results, scores, exc, calls>>

\* the loop printing each hit with its score, then return results, intent
ReturnMatches ==
  /\ pc = "OUT"
  /\ results[1].ids # <<>>
  /\ scores' \in ScoreSeqs(results[1].distances)
  /\ ret' = Some(<<results, intent>>)
  /\ pc' = "done"
  /\ UNCHANGED <<args, env, fuzzy, rest, resume_text, ner_output, roles, skills, education,
                 locations, combined_input, intent, where_clauses, final_where, base_query,
                 rich_query, results, exc, calls>>

Next ==
  \/ StepA_ExtractText
  \/ StepA_NER
  \/ StepB_Intent
  \/ StepC_Filter
  \/ StepD_Query
  \/ StepE_Search
  \/ ReturnNoMatches
  \/ ReturnMatches

\* the caller invokes smart_search_with_file once more, with other arguments
\* and other answers of the services; the module state stays as loaded
Reinvoke ==
  /\ pc = "done"
  /\ history = <<>>
  /\ history' = Append(history,
       [additional_query |-> additional_query, NER_applied |-> NER_applied,
        ner_reply |-> ner_reply, llm_reply |-> llm_reply,
        where |-> store_requests[Len(store_requests)].where])
  /\ additional_query' \in TwiceQueries
  /\ NER_applied' \in BOOLEAN
  /\ ner_reply' \in TwiceProfiles
  /\ llm_reply' \in TwiceIntents
  /\ resume_text' = <<>>
  /\ ner_output' = None
  /\ roles' = <<>> /\ skills' = <<>> /\ education' = <<>> /\ locations' = <<>>
  /\ combined_input' = None
  /\ intent' = None
  /\ where_clauses' = <<>>
  /\ final_where' = None
  /\ base_query' = <<>>
  /\ rich_query' = <<>>
  /\ results' = None
  /\ scores' = <<>>
  /\ ret' = None
  /\ ner_calls' = 0 /\ llm_calls' = 0
  /\ trace' = <<>>
  /\ pc' = "A"
  /\ UNCHANGED <<file_path, UNIQUE_LOCATIONS, doc_text, store_reply, ner_fault, llm_fault,
                 store_fault, exc, store_requests, fuzzy, app, offline>>

NextTwice == Next \/ Reinvoke

\* a direct call get_fuzzy_locations(user_loc) against the loaded cache
Call_get_fuzzy_locations ==
  /\ pc = "fuzzy"
  /\ fuzzy_ret' = get_fuzzy_locations(fuzzy_arg, UNIQUE_LOCATIONS)
  /\ pc' = "fuzzy_done"
  /\ UNCHANGED <<args, env, locals, calls, fuzzy_arg, rest>>

NextFuzzy == Call_get_fuzzy_locations

\* a prompt is submitted: the user message is appended; without an upload the
\* warning is shown and the run ends, otherwise the upload is written to the
\* file "temp_resume"
AppPrompt(s) ==
  /\ app_pc[s] = "idle"
  /\ pending[s] # <<>>
  /\ prompt' = [prompt EXCEPT ![s] = Some(Head(pending[s]))]
  /\ pending' = [pending EXCEPT ![s] = Tail(pending[s])]
  /\ messages' = [messages EXCEPT
                    ![s] = Append(@, [role |-> "user", content |-> Head(pending[s])])]
  /\ sess_out' = [sess_out EXCEPT ![s] = None]
  /\ IF uploaded_file[s] = None
     THEN /\ shown' = [shown EXCEPT ![s] = Append(@, "warning")]
          /\ UNCHANGED <<temp_resume, app_pc>>
     ELSE /\ temp_resume' = uploaded_file[s]
          /\ app_pc' = [app_pc EXCEPT ![s] = "saved"]
          /\ UNCHANGED shown
  /\ UNCHANGED <<args, env, pc, locals, calls, fuzzy, history, offline, uploaded_file, sess_text, svc, runs>>

\* smart_search_with_file("temp_resume", prompt) is entered: STEP A reads the
\* file of that name as it is now
AppExtract(s) ==
  /\ app_pc[s] = "saved"
  /\ runs' = [runs EXCEPT ![s] = @ + 1]
  /\ sess_text' = [sess_text EXCEPT
                     ![s] = extract_text_from_file(TempPath, temp_resume[1].text)]
  /\ app_pc' = [app_pc EXCEPT ![s] = "search"]
  /\ UNCHANGED <<args, env, pc, locals, calls, fuzzy, history, offline, uploaded_file, pending, prompt,
                 messages, temp_resume, sess_out, svc, shown>>

\* the rest of the call, up to its return or its exception
AppSearch(s) ==
  /\ app_pc[s] = "search"
  /\ sess_out' = [sess_out EXCEPT
                    ![s] = Some(smart_search(sess_text[s], prompt[s][1], UNIQUE_LOCATIONS,
                                             svc[s]))]
  /\ app_pc' = [app_pc EXCEPT ![s] = "render"]
  /\ UNCHANGED <<args, env, pc, locals, calls, fuzzy, history, offline, uploaded_file, pending, prompt,
                 messages, temp_resume, sess_text, svc, shown, runs>>

\* the assistant bubble appending the no-matches message for a call that raised
AppRender_AppendsOnError(s) ==
  /\ app_pc[s] = "render"
  /\ LET out == sess_out[s][1] IN
     IF out.kind = "raised"
     THEN /\ shown' = [shown EXCEPT ![s] = Append(@, "exception")]
          /\ messages' = [messages EXCEPT
               ![s] = Append(@, [role |-> "assistant", content |-> NoMatchesMessage])]
     ELSE IF out.results = None \/ out.results[1].ids = <<>>
     THEN /\ shown' = [shown EXCEPT ![s] = Append(@, "no_matches")]
          /\ messages' = [messages EXCEPT
               ![s] = Append(@, [role |-> "assistant", content |-> NoMatchesMessage])]
     ELSE /\ shown' = [shown EXCEPT ![s] = Append(@, "matches")]
          /\ messages' = [messages EXCEPT
               ![s] = Append(@, [role |-> "assistant", content |-> FoundMessage])]
  /\ app_pc' = [app_pc EXCEPT ![s] = "idle"]
  /\ UNCHANGED <<args, env, pc, locals, calls, fuzzy, history, offline, uploaded_file,
                 pending, prompt, temp_resume, sess_text, sess_out, svc, runs>>

\* the assistant bubble: an exception of the call ends the script run with
\* the traceback on the page; if not results: the no-matches message is
\* appended; else the found message
AppRender(s) ==
  /\ app_pc[s] = "render"
  /\ LET out == sess_out[s][1] IN
     IF out.kind = "raised"
     THEN /\ shown' = [shown EXCEPT ![s] = Append(@, "exception")]
          /\ UNCHANGED messages
     ELSE IF out.results = None \/ out.results[1].ids = <<>>
     THEN /\ shown' = [shown EXCEPT ![s] = Append(@, "no_matches")]
          /\ messages' = [messages EXCEPT
               ![s] = Append(@, [role |-> "assistant", content |-> NoMatchesMessage])]
     ELSE /\ shown' = [shown EXCEPT ![s] = Append(@, "matches")]
          /\ messages' = [messages EXCEPT
               ![s] = Append(@, [role |-> "assistant", content |-> FoundMessage])]
  /\ app_pc' = [app_pc EXCEPT ![s] = "idle"]
  /\ UNCHANGED <<args, env, pc, locals, calls, fuzzy, history, offline, uploaded_file, pending, prompt,
                 temp_resume, sess_text, sess_out, svc, runs>>

NextApp ==
  \E s \in Sessions : AppPrompt(s) \/ AppExtract(s) \/ AppSearch(s) \/ AppRender(s)

\* metadata_cache_db.py: the sorted distinct locations, empty cells read as
\* "UNKNOWN", are written to metadata_cache.json
generate_metadata_cache ==
  /\ pc = "build"
  /\ cache_file = None
  /\ cache_file' = Some(SortedUnique({fillna(postings[i], UNKNOWN) : i \in 1..Len(postings)}))
  /\ UNCHANGED <<args, env, pc, locals, calls, fuzzy, history, app, nerh, chunking, postings, collection_meta,
                 ingest_i>>

\* job_vector_db.py: one batch of the ingestion loop; empty cells read as ""
\* and the metadata location is str() of the cell
IngestBatch ==
  /\ pc = "build"
  /\ ingest_i < Len(postings)
  /\ LET end == IF ingest_i + BATCH_SIZE < Len(postings) THEN ingest_i + BATCH_SIZE
                ELSE Len(postings)
     IN /\ collection_meta' = collection_meta \o
             [k \in 1..(end - ingest_i) |-> fillna(postings[ingest_i + k], <<>>)]
        /\ ingest_i' = end
  /\ UNCHANGED <<args, env, pc, locals, calls, fuzzy, history, app, nerh, chunking, postings, cache_file>>

\* search_script.py is imported once both are built: UNIQUE_LOCATIONS is what
\* metadata_cache.json lists under "locations"
LoadCache ==
  /\ pc = "build"
  /\ cache_file # None
  /\ ingest_i = Len(postings)
  /\ UNIQUE_LOCATIONS' = cache_file[1]
  /\ pc' = "fuzzy"
  /\ UNCHANGED <<args, doc_text, ner_reply, llm_reply, store_reply, ner_fault, llm_fault,
                 store_fault, locals, calls, fuzzy, rest>>

NextIngest ==
  \/ generate_metadata_cache
  \/ IngestBatch
  \/ LoadCache
  \/ Call_get_fuzzy_locations

\* parse_resume_ner_bert: one pass of the loop over the entities
NerCollect ==
  /\ pc = "ner"
  /\ ner_i < Len(ner_items)
  /\ collected' = collect(collected, ner_items[ner_i + 1])
  /\ ner_i' = ner_i + 1
  /\ UNCHANGED <<args, env, pc, locals, calls, fuzzy, history, app, ingest, chunking, ner_items, max_roles,
                 max_skills, ner_profile>>

\* parse_resume_ner_bert: the return of the four lists, made unique, roles
\* and skills cut to max_roles and max_skills
NerReturn ==
  /\ pc = "ner"
  /\ ner_i = Len(ner_items)
  /\ ner_profile' = Some(
       [roles |-> Prefix(_unique(collected.roles, UNIQUE_MIN_LEN), max_roles),
        skills |-> Prefix(_unique(collected.skills, UNIQUE_MIN_LEN), max_skills),
        education |-> _unique(collected.education, UNIQUE_MIN_LEN),
        locations |-> _unique(collected.locations, UNIQUE_MIN_LEN)])
  /\ pc' = "ner_done"
  /\ UNCHANGED <<args, env, locals, calls, fuzzy, history, app, ingest, chunking, ner_items, max_roles,
                 max_skills, ner_i, collected>>

NextNer == NerCollect \/ NerReturn

\* _chunk_text: a text of at most max_tokens tokens is returned whole;
\* otherwise chunks = [] and start = 0
ChunkEnter ==
  /\ pc = "chunk"
  /\ IF Len(tokens) <= max_tokens
     THEN /\ chunk_ret' = Some(<<tokens>>)
          /\ pc' = "chunk_done"
          /\ UNCHANGED <<start, chunks, chunk_starts>>
     ELSE /\ start' = 0
          /\ chunks' = <<>>
          /\ chunk_starts' = <<>>
          /\ pc' = "chunk_loop"
          /\ UNCHANGED chunk_ret
  /\ UNCHANGED <<args, env, locals, calls, fuzzy, history, app, ingest, nerh, tokens, max_tokens,
                 overlap>>

\* _chunk_text stepping by max_tokens whatever the overlap
ChunkLoop_NoOverlap ==
  /\ pc = "chunk_loop"
  /\ IF start < Len(tokens)
     THEN LET end == start + max_tokens
              chunk_text == decode(Slice(tokens, start, end))
          IN /\ IF chunk_text # <<>>
                THEN /\ chunks' = Append(chunks, chunk_text)
                     /\ chunk_starts' = Append(chunk_starts, start)
                ELSE UNCHANGED <<chunks, chunk_starts>>
             /\ start' = end
             /\ pc' = IF start' >= Len(tokens) THEN "chunk_return" ELSE "chunk_loop"
     ELSE /\ pc' = "chunk_return"
          /\ UNCHANGED <<start, chunks, chunk_starts>>
  /\ UNCHANGED <<args, env, locals, calls, fuzzy, history, app, ingest, nerh, tokens, max_tokens,
                 overlap, chunk_ret>>

\* _chunk_text: one pass of the while loop; a chunk whose decoded text is
\* blank is not appended
ChunkLoop ==
  /\ pc = "chunk_loop"
  /\ IF start < Len(tokens)
     THEN LET end == start + max_tokens
              chunk_text == decode(Slice(tokens, start, end))
          IN /\ IF chunk_text # <<>>
                THEN /\ chunks' = Append(chunks, chunk_text)
                     /\ chunk_starts' = Append(chunk_starts, start)
                ELSE UNCHANGED <<chunks, chunk_starts>>
             /\ start' = end - overlap
             /\ pc' = IF start' >= Len(tokens) THEN "chunk_return" ELSE "chunk_loop"
     ELSE /\ pc' = "chunk_return"
          /\ UNCHANGED <<start, chunks, chunk_starts>>
  /\ UNCHANGED <<args, env, locals, calls, fuzzy, history, app, ingest, nerh, tokens, max_tokens,
                 overlap, chunk_ret>>

\* _chunk_text: return chunks if chunks else [text]
ChunkReturn ==
  /\ pc = "chunk_return"
  /\ chunk_ret' = Some(IF chunks # <<>> THEN chunks ELSE <<tokens>>)
  /\ pc' = "chunk_done"
  /\ UNCHANGED <<args, env, locals, calls, fuzzy, history, app, ingest, nerh, tokens, max_tokens,
                 overlap, start, chunks, chunk_starts>>

NextChunk == ChunkEnter \/ ChunkLoop \/ ChunkReturn

\* ------------------------------------------------------------ input domains
BackendDev == <<"B", "a", "c", "k", "e", "n", "d", " ", "D", "e", "v">>
Engineer == <<"E", "n", "g", "i", "n", "e", "e", "r">>
Python == <<"P", "y", "t", "h", "o", "n">>
Go == <<"G", "o">>
MSc == <<"M", "S", "c">>
NY == <<"N", "Y">>
Boston == <<"B", "o", "s", "t", "o", "n">>
Jobs == <<"j", "o", "b", "s">>
EntryLevel == <<"E", "n", "t", "r", "y", " ", "l", "e", "v", "e", "l">>
Senior == <<"S", "e", "n", "i", "o", "r">>
FULL_TIME == <<"F", "U", "L", "L", "_", "T", "I", "M", "E">>
Google == <<"G", "o", "o", "g", "l", "e">>
Remote == <<"R", "E", "M", "O", "T", "E">>

PdfPath == <<"c", "v", ".", "P", "D", "F">>
DocxPath == <<"c", "v", ".", "d", "o", "c", "x">>

\* canonical locations the postings may carry, and the caches built from them:
\* sorted(unique(...)) as metadata_cache_db.py writes them
CacheLocations == {l \in SeqUpTo({"N", "y"}, 2) : l # <<>>}

Caches(locs, n) ==
  {c \in SeqUpTo(locs, n) : \A i, j \in 1..Len(c) : i < j => StrLess(c[i], c[j])}

\* locations the intent extractor may name
UserLocations == {None} \cup {Some(l) : l \in SeqUpTo({"n", "Y"}, 2)}

\* lists parse_resume_ner_bert can return: at most n terms of at least two
\* characters, no two equal ignoring case
TermLists(terms, n) ==
  {l \in SeqUpTo(terms, n) : \A i, j \in 1..Len(l) : i < j => Lower(l[i]) # Lower(l[j])}

Profiles(n) ==
  [roles : TermLists({Engineer, Python}, n), skills : TermLists({Python, Go}, n),
   education : TermLists({MSc}, n), locations : TermLists({NY}, n)]

Intents(titles, locs, exps, wts, companies) ==
  [title : titles, location : locs, experience : exps, work_type : wts, company : companies]

\* distances (times DIST_SCALE) the vector store may report
Distances ==
  {-1000, -10, -6, -5, -4, 0, 4, 5, 25000, 33333, 99995, 100000, 100004, 100005, 100006,
   100010, 150000}

InitEnv(paths, texts, queries, flags, caches, profiles, intents, replies) ==
  /\ file_path \in paths
  /\ doc_text \in texts
  /\ additional_query \in queries
  /\ NER_applied \in flags
  /\ UNIQUE_LOCATIONS \in caches
  /\ ner_reply \in profiles
  /\ llm_reply \in intents
  /\ store_reply \in replies

\* no service fails
NoFaults ==
  /\ ner_fault = "none"
  /\ llm_fault = "none"
  /\ store_fault = "none"

InitLocals ==
  /\ resume_text = <<>>
  /\ ner_output = None
  /\ roles = <<>> /\ skills = <<>> /\ education = <<>> /\ locations = <<>>
  /\ combined_input = None
  /\ intent = None
  /\ where_clauses = <<>>
  /\ final_where = None
  /\ base_query = <<>>
  /\ rich_query = <<>>
  /\ results = None
  /\ scores = <<>>
  /\ ret = None
  /\ exc = None
  /\ ner_calls = 0 /\ llm_calls = 0
  /\ store_requests = <<>>
  /\ trace = <<>>
  /\ history = <<>>

\* no browser session: the pipeline is called directly, as the CLI entry point does
NoSessions ==
  /\ uploaded_file = [s \in Sessions |-> None]
  /\ pending = [s \in Sessions |-> <<>>]
  /\ prompt = [s \in Sessions |-> None]
  /\ messages = [s \in Sessions |-> <<>>]
  /\ temp_resume = None
  /\ app_pc = [s \in Sessions |-> "idle"]
  /\ sess_text = [s \in Sessions |-> <<>>]
  /\ sess_out = [s \in Sessions |-> None]
  /\ svc = [s \in Sessions |-> None]
  /\ shown = [s \in Sessions |-> <<>>]
  /\ runs = [s \in Sessions |-> 0]

\* _chunk_text is not under way
NoChunking ==
  /\ tokens = <<>>
  /\ max_tokens = 0
  /\ overlap = 0
  /\ start = 0
  /\ chunks = <<>>
  /\ chunk_starts = <<>>
  /\ chunk_ret = None

\* nothing is being ingested and parse_resume_ner_bert is not under way
NoOffline ==
  /\ postings = <<>>
  /\ cache_file = None
  /\ collection_meta = <<>>
  /\ ingest_i = 0
  /\ ner_items = <<>>
  /\ max_roles = 0
  /\ max_skills = 0
  /\ ner_i = 0
  /\ collected = EmptyProfile
  /\ ner_profile = None
  /\ NoChunking

InitWith(paths, texts, queries, flags, caches, profiles, intents, replies) ==
  /\ InitEnv(paths, texts, queries, flags, caches, profiles, intents, replies)
  /\ NoFaults
  /\ InitLocals
  /\ pc = "A"
  /\ fuzzy_arg = None
  /\ fuzzy_ret = <<>>
  /\ NoSessions
  /\ NoOffline

\* every input varied a little
Init ==
  InitWith({PdfPath, DocxPath, TempPath}, {<<"c", "v">>, <<" ">>}, {<<>>, Jobs},
           BOOLEAN, Caches({<<"N", "y">>, <<"y">>}, 1), Profiles(1),
           Intents({None, Some(BackendDev)}, {None, Some(<<"n">>)},
                   {None, Some(EntryLevel)}, {None, Some(FULL_TIME)}, {None}),
           {<<>>, <<25000>>})

Spec == Init /\ [][Next]_vars

\* the filter: every intent over every cache
InitFilter ==
  InitWith({PdfPath}, {<<"c", "v">>}, {Jobs}, BOOLEAN,
           Caches(CacheLocations, MaxCache), {EmptyProfile},
           Intents({None}, UserLocations, {None, Some(<<>>), Some(EntryLevel)},
                   {None, Some(FULL_TIME)}, {None, Some(Google)}),
           {<<>>, <<25000>>})

SpecFilter == InitFilter /\ [][Next]_vars

\* the query: every profile, title and additional query
InitQuery ==
  InitWith({PdfPath, TempPath}, {<<"c", "v">>}, {<<>>, Jobs}, BOOLEAN,
           {<<>>}, Profiles(MaxTerms),
           Intents({None, Some(<<>>), Some(BackendDev)}, {None}, {None}, {None}, {None}),
           {<<>>, <<25000>>})

SpecQuery == InitQuery /\ [][Next]_vars

\* the scores: every answer of the vector store
InitScore ==
  InitWith({PdfPath}, {<<"c", "v">>}, {Jobs}, BOOLEAN, {<<>>}, {EmptyProfile},
           Intents({None, Some(BackendDev)}, {None}, {None}, {None}, {None}),
           SeqUpTo(Distances, MaxHits))

SpecScore == InitScore /\ [][Next]_vars

\* the services failing: every fault of every service, and replies of the
\* intent extractor outside the recognised experience levels and work types
FullProfile ==
  [roles |-> <<Engineer>>, skills |-> <<Go>>, education |-> <<MSc>>, locations |-> <<NY>>]

InitFaults ==
  /\ InitEnv({PdfPath, TempPath}, {<<"c", "v">>}, {<<>>, Jobs}, BOOLEAN,
             Caches({<<"N", "y">>}, 1), {EmptyProfile, FullProfile},
             Intents({None, Some(BackendDev)}, {None, Some(<<"n">>)},
                     {None, Some(EntryLevel), Some(Senior)},
                     {None, Some(FULL_TIME), Some(Remote)}, {None}),
             {<<>>, <<25000>>})
  /\ ner_fault \in {"none", "load", "inference"}
  /\ llm_fault \in {"none", "APIError", "APITimeoutError", "JSONDecodeError"}
  /\ store_fault \in {"none", "StoreError"}
  /\ InitLocals
  /\ pc = "A"
  /\ fuzzy_arg = None
  /\ fuzzy_ret = <<>>
  /\ NoSessions
  /\ NoOffline

SpecFaults == InitFaults /\ [][Next]_vars

\* get_fuzzy_locations called directly: every user location over every cache
InitFuzzy ==
  /\ InitEnv({PdfPath}, {<<>>}, {<<>>}, {FALSE}, Caches(CacheLocations, MaxCache),
             {EmptyProfile}, Intents({None}, {None}, {None}, {None}, {None}), {<<>>})
  /\ NoFaults
  /\ InitLocals
  /\ pc = "fuzzy"
  /\ fuzzy_arg \in UserLocations
  /\ fuzzy_ret = <<>>
  /\ NoSessions
  /\ NoOffline

SpecFuzzy == InitFuzzy /\ [][NextFuzzy]_vars

\* the browser sessions: what each has uploaded, the prompts it will submit
\* and what the services answer to its calls
CvUpload == [name |-> PdfPath, text |-> <<"c", "v">>]
XyUpload == [name |-> DocxPath, text |-> <<"x", "y">>]

Services ==
  {v \in [llm_reply : Intents({None, Some(BackendDev)}, {None}, {None}, {None}, {None}),
          llm_fault : {"none", "APIError"},
          store_reply : {<<>>, <<25000>>},
          store_fault : {"none", "StoreError"}] :
     /\ v.llm_fault # "none" =>
          (v.llm_reply.title = None /\ v.store_reply = <<>> /\ v.store_fault = "none")
     /\ v.store_fault # "none" => v.store_reply = <<>>}

InitApp ==
  /\ InitEnv({TempPath}, {<<>>}, {<<>>}, {FALSE}, {<<<<"N", "y">>>>}, {EmptyProfile},
             Intents({None}, {None}, {None}, {None}, {None}), {<<>>})
  /\ NoFaults
  /\ InitLocals
  /\ pc = "app"
  /\ fuzzy_arg = None
  /\ fuzzy_ret = <<>>
  /\ uploaded_file \in [Sessions -> {None, Some(CvUpload), Some(XyUpload)}]
  /\ pending \in [Sessions -> SeqUpTo({Jobs}, MaxPrompts)]
  /\ prompt = [s \in Sessions |-> None]
  /\ messages = [s \in Sessions |-> <<>>]
  /\ temp_resume = None
  /\ app_pc = [s \in Sessions |-> "idle"]
  /\ sess_text = [s \in Sessions |-> <<>>]
  /\ sess_out = [s \in Sessions |-> None]
  /\ svc \in [Sessions -> Services]
  /\ shown = [s \in Sessions |-> <<>>]
  /\ runs = [s \in Sessions |-> 0]
  /\ NoOffline

SpecApp == InitApp /\ [][NextApp]_vars

\* the postings file: each row's location cell, empty in some rows
LocationCells == {None, Some(<<"N">>), Some(<<"y">>), Some(<<"N", "y">>)}

InitIngest ==
  /\ InitEnv({PdfPath}, {<<>>}, {<<>>}, {FALSE}, {<<>>}, {EmptyProfile},
             Intents({None}, {None}, {None}, {None}, {None}), {<<>>})
  /\ NoFaults
  /\ InitLocals
  /\ pc = "build"
  /\ fuzzy_arg \in UserLocations
  /\ fuzzy_ret = <<>>
  /\ NoSessions
  /\ postings \in SeqUpTo(LocationCells, MaxPostings)
  /\ cache_file = None
  /\ collection_meta = <<>>
  /\ ingest_i = 0
  /\ ner_items = <<>>
  /\ max_roles = 0
  /\ max_skills = 0
  /\ ner_i = 0
  /\ collected = EmptyProfile
  /\ ner_profile = None
  /\ NoChunking

SpecIngest == InitIngest /\ [][NextIngest]_vars

\* the entities the NER model may emit: words differing in case only, a
\* comma-separated skill list, a state code, a low score, an ignored label
GoUpper == <<"G", "O">>
Py == <<"P", "y">>
GoCommaPy == <<"G", "o", ",", " ", "p", "y", ".">>
Ca == <<"c", "a">>

NerEntities ==
  [entity_group : {"Designation", "Skills", "Degree", "Location"},
   word : {Go, GoUpper, Py, GoCommaPy, Ca}, score : {90}]
  \cup {[entity_group |-> "Designation", word |-> Go, score |-> 40],
        [entity_group |-> "Name", word |-> Py, score |-> 90]}

InitNer ==
  /\ InitEnv({PdfPath}, {<<"c", "v">>}, {<<>>}, {TRUE}, {<<>>}, {EmptyProfile},
             Intents({None}, {None}, {None}, {None}, {None}), {<<>>})
  /\ NoFaults
  /\ InitLocals
  /\ pc = "ner"
  /\ fuzzy_arg = None
  /\ fuzzy_ret = <<>>
  /\ NoSessions
  /\ postings = <<>>
  /\ cache_file = None
  /\ collection_meta = <<>>
  /\ ingest_i = 0
  /\ ner_items \in SeqUpTo(NerEntities, MaxEntities)
  /\ max_roles \in {1, 20}
  /\ max_skills \in {1, 50}
  /\ ner_i = 0
  /\ collected = EmptyProfile
  /\ ner_profile = None
  /\ NoChunking

SpecNer == InitNer /\ [][NextNer]_vars

\* _chunk_text called on every short token sequence, words and unknown
\* words, with every max_tokens > overlap >= 0
InitChunk ==
  /\ InitEnv({PdfPath}, {<<"c", "v">>}, {<<>>}, {TRUE}, {<<>>}, {EmptyProfile},
             Intents({None}, {None}, {None}, {None}, {None}), {<<>>})
  /\ NoFaults
  /\ InitLocals
  /\ pc = "chunk"
  /\ fuzzy_arg = None
  /\ fuzzy_ret = <<>>
  /\ NoSessions
  /\ postings = <<>>
  /\ cache_file = None
  /\ collection_meta = <<>>
  /\ ingest_i = 0
  /\ ner_items = <<>>
  /\ max_roles = 0
  /\ max_skills = 0
  /\ ner_i = 0
  /\ collected = EmptyProfile
  /\ ner_profile = None
  /\ tokens \in SeqUpTo({"w", UNK}, MaxTokens)
  /\ max_tokens \in 1..MaxChunk
  /\ overlap \in 0..(max_tokens - 1)
  /\ start = 0
  /\ chunks = <<>>
  /\ chunk_starts = <<>>
  /\ chunk_ret = None

\* the call runs to its end: each step of the function is taken in turn
SpecChunk == InitChunk /\ [][NextChunk]_vars /\ WF_vars(NextChunk)

\* two invocations in a row over one loaded cache
InitTwice ==
  InitWith({PdfPath}, {<<"c", "v">>}, TwiceQueries, BOOLEAN,
           Caches({<<"N", "y">>}, 1), TwiceProfiles, TwiceIntents, {<<>>, <<25000>>})

SpecTwice == InitTwice /\ [][NextTwice]_vars

\* ------------------------------------------------------------------ claims
Range(l) == {l[i] : i \in 1..Len(l)}

\* the filter the claims expect for an intent and a location expansion
ExpectedWhere(i, expansion) ==
  LET E == [experience |-> i.experience[1]]
      W == [work_type |-> i.work_type[1]]
      L == [location |-> [in |-> expansion]]
      e == Truthy(i.experience)
      w == Truthy(i.work_type)
      l == expansion # <<>>
  IN CASE e /\ w /\ l -> Some([and |-> <<E, W, L>>])
       [] e /\ w /\ ~l -> Some([and |-> <<E, W>>])
       [] e /\ ~w /\ l -> Some([and |-> <<E, L>>])
       [] ~e /\ w /\ l -> Some([and |-> <<W, L>>])
       [] e /\ ~w /\ ~l -> Some(E)
       [] ~e /\ w /\ ~l -> Some(W)
       [] ~e /\ ~w /\ l -> Some(L)
       [] ~e /\ ~w /\ ~l -> None

\* C1: the filter sent to the vector store is no filter when no clause
\* applies, the single clause alone when exactly one applies, and the AND of
\* the applicable clauses in the order experience, work_type, location when
\* two or more apply; it is a function of the intent and the expansion.
C1_FilterIsCompiled ==
  \A k \in 1..Len(store_requests) :
    store_requests[k].where =
      ExpectedWhere(intent, get_fuzzy_locations(intent.location, UNIQUE_LOCATIONS))

C1_Witness ==
  /\ store_requests # <<>>
  /\ store_requests[1].where # None
  /\ DOMAIN store_requests[1].where[1] = {"and"}
  /\ Len(store_requests[1].where[1].and) = 3

\* a cached location matches when some stretch of it equals the user
\* location once both are lower-cased
Matches(loc, u) ==
  \E i, j \in 0..Len(loc) : i <= j /\ Lower(SubSeq(loc, i + 1, j)) = Lower(u)

ClausesOf(w) ==
  IF w = None THEN <<>>
  ELSE IF "and" \in DOMAIN w[1] THEN w[1].and
  ELSE <<w[1]>>

HasClause(w, field) == \E c \in Range(ClausesOf(w)) : field \in DOMAIN c

\* C3: the filter sent to the vector store has no OR at the top level and no
\* clause with an empty value set; when intent.location is set but matches
\* no cached location the location clause is omitted and the experience and
\* work_type clauses are still applied.
C3_NoOrNoEmptyClause ==
  \A k \in 1..Len(store_requests) :
    LET w == store_requests[k].where IN
    /\ w # None => "or" \notin DOMAIN w[1]
    /\ \A c \in Range(ClausesOf(w)) :
         /\ DOMAIN c \in {{"experience"}, {"work_type"}, {"location"}}
         /\ "location" \in DOMAIN c => c.location.in # <<>>
         /\ "experience" \in DOMAIN c => c.experience # <<>>
         /\ "work_type" \in DOMAIN c => c.work_type # <<>>
    /\ (/\ Truthy(intent.location)
        /\ \A loc \in Range(UNIQUE_LOCATIONS) : ~Matches(loc, intent.location[1]))
       => /\ ~HasClause(w, "location")
          /\ HasClause(w, "experience") <=> Truthy(intent.experience)
          /\ HasClause(w, "work_type") <=> Truthy(intent.work_type)

C3_Witness ==
  /\ store_requests # <<>>
  /\ Truthy(intent.location)
  /\ UNIQUE_LOCATIONS # <<>>
  /\ \A loc \in Range(UNIQUE_LOCATIONS) : ~Matches(loc, intent.location[1])
  /\ store_requests[1].where = Some([experience |-> EntryLevel])

SentQuery(k) == store_requests[k].query_texts[1]

AllTerms(p) == p.roles \o p.skills \o p.education \o p.locations

BackendDevEngineerPython ==
  <<"B", "a", "c", "k", "e", "n", "d", " ", "D", "e", "v", " ",
    "E", "n", "g", "i", "n", "e", "e", "r", " ", "P", "y", "t", "h", "o", "n">>

\* C4 as stated: with fusion enabled the query sent to the vector store is
\* the base term, a space, and the space-joined roles, skills, education and
\* locations of the extracted profile, every profile term included.
C4_EveryTermFused ==
  \A k \in 1..Len(store_requests) :
    NER_applied =>
      SentQuery(k) = base_query \o <<" ">> \o Join(<<" ">>, AllTerms(ner_output[1]))

\* C4 amended: with fusion enabled the query sent to the vector store is the
\* base term, a space, and the space-joined terms of more than two
\* characters of roles, skills, education and locations, in that order and
\* without de-duplication across categories; base "Backend Dev", roles
\* ["Engineer"], skills ["Python"] gives "Backend Dev Engineer Python".
C4_LongTermsFused ==
  \A k \in 1..Len(store_requests) :
    NER_applied =>
      /\ SentQuery(k) = base_query \o <<" ">> \o
           Join(<<" ">>, SelectSeq(AllTerms(ner_output[1]), LAMBDA t : Len(t) > 2))
      /\ (/\ base_query = BackendDev
          /\ ner_output[1] = [roles |-> <<Engineer>>, skills |-> <<Python>>,
                              education |-> <<>>, locations |-> <<>>])
         => SentQuery(k) = BackendDevEngineerPython

C4_Witness ==
  /\ store_requests # <<>>
  /\ NER_applied
  /\ ner_output = Some([roles |-> <<Python>>, skills |-> <<Python>>,
                        education |-> <<MSc>>, locations |-> <<NY>>])
  /\ base_query = BackendDev

JobOpportunity ==
  <<"J", "o", "b", " ", "O", "p", "p", "o", "r", "t", "u", "n", "i", "t", "y">>

\* C5: the base term is intent.title when present, otherwise the additional
\* query when non-empty, otherwise the literal "Job Opportunity"; with an
\* empty additional query, no title and fusion disabled the query sent to
\* the vector store is "Job Opportunity".
C5_BaseTermFallback ==
  \A k \in 1..Len(store_requests) :
    /\ base_query = IF Truthy(intent.title) THEN intent.title[1]
                    ELSE IF additional_query # <<>> THEN additional_query
                    ELSE JobOpportunity
    /\ (~Truthy(intent.title) /\ additional_query = <<>> /\ ~NER_applied)
       => SentQuery(k) = JobOpportunity

\* C6: with fusion disabled the query sent to the vector store is the base
\* term alone, holds no term of the profile of the resume, and the profile
\* extractor is never called.
C6_NoFusionNoProfile ==
  ~NER_applied =>
    /\ ner_calls = 0
    /\ ner_output = None
    /\ \A k \in 1..Len(store_requests) :
         /\ SentQuery(k) = base_query
         /\ Truthy(intent.title) => SentQuery(k) = intent.title[1]
         /\ (~Truthy(intent.title) /\ additional_query # <<>>) => SentQuery(k) = additional_query
         /\ \A t \in Range(AllTerms(ner_reply)) : ~Contains(SentQuery(k), t)

C6_Witness ==
  /\ ~NER_applied
  /\ store_requests # <<>>
  /\ resume_text # <<>>
  /\ ner_reply.roles # <<>> /\ ner_reply.skills # <<>>
  /\ SentQuery(1) = BackendDev

\* C7: with fusion enabled and a profile whose four lists are all empty the
\* query sent to the vector store equals the base term exactly, with no
\* leading, trailing or doubled space.
C7_EmptyProfileNoSpace ==
  \A k \in 1..Len(store_requests) :
    (NER_applied /\ ner_output = Some(EmptyProfile)) => SentQuery(k) = base_query

C9_IntentReturnedUnmodified ==
  /\ pc \in {"C", "D", "E", "OUT", "done"} => intent = llm_reply
  /\ pc = "done" => (ret # None /\ Len(ret[1]) = 2 /\ ret[1][2] = llm_reply)

C9_Witness ==
  /\ pc = "done"
  /\ ret[1][1] # None
  /\ ret[1][2].experience = Some(EntryLevel)
  /\ ret[1][2].location = Some(<<"n">>)
  /\ store_requests[1].where # None

Abs(x) == IF x < 0 THEN 0 - x ELSE x

\* what C10 says of every hit, except for distances outside [0,1]
ScoresAreRounded ==
  LET dist == results[1].distances
      n == Len(dist)
      full == 100 * SCORE_SCALE
  IN /\ Len(scores) = n
     /\ \A i \in 1..n :
          /\ 2 * Abs(scores[i] * DIST_SCALE - (DIST_SCALE - dist[i]) * full) <= DIST_SCALE
          /\ dist[i] = 0 => scores[i] = full
          /\ dist[i] = DIST_SCALE => scores[i] = 0
          /\ 4 * dist[i] = DIST_SCALE => scores[i] = 75 * SCORE_SCALE
          /\ (0 <= dist[i] /\ dist[i] <= DIST_SCALE) => (0 <= scores[i] /\ scores[i] <= full)
          /\ \A j \in 1..n :
               (0 <= dist[i] /\ dist[i] < dist[j] /\ dist[j] <= DIST_SCALE)
               => scores[i] >= scores[j]

\* C10 as stated: the score is round((1 - distance) * 100, 2) unclamped, in
\* [0,100] and never smaller for a smaller distance when the distance is in
\* [0,1], and outside [0,100] for every distance outside [0,1].
C10_OutsideGivesOutside ==
  (pc = "done" /\ ret[1][1] # None) =>
    /\ ScoresAreRounded
    /\ \A i \in 1..Len(scores) :
         (results[1].distances[i] < 0 \/ results[1].distances[i] > DIST_SCALE)
         => (scores[i] < 0 \/ scores[i] > 100 * SCORE_SCALE)

Far == DIST_SCALE \div 10000    \* 0.0001
Near == DIST_SCALE \div 20000   \* 0.00005

\* C10 amended: as stated, except that a distance outside [0,1] yields a
\* score outside [0,100] when it is at least 0.0001 outside; a distance less
\* than 0.00005 outside rounds back to 100.0 or 0.0.
C10_FarOutsideGivesOutside ==
  (pc = "done" /\ ret[1][1] # None) =>
    /\ ScoresAreRounded
    /\ \A i \in 1..Len(scores) :
         LET d == results[1].distances[i] IN
         /\ (d <= 0 - Far \/ d >= DIST_SCALE + Far)
            => (scores[i] < 0 \/ scores[i] > 100 * SCORE_SCALE)
         /\ (0 - Near < d /\ d < 0) => scores[i] = 100 * SCORE_SCALE
         /\ (DIST_SCALE < d /\ d < DIST_SCALE + Near) => scores[i] = 0

C10_Witness ==
  /\ pc = "done"
  /\ Len(scores) = 2
  /\ results[1].distances = <<100004, 150000>>
  /\ scores = <<0, -5000>>

\* the intent with every field null
NullIntent ==
  [title |-> None, location |-> None, experience |-> None, work_type |-> None,
   company |-> None]

\* C12: with fusion enabled, a failure of the profile extractor (the model
\* cannot be loaded, or inference raises) never aborts the invocation: the
\* pipeline goes on with the empty profile and calls the intent extractor.
C12_ExtractorFailureEmptyProfile ==
  (NER_applied /\ ner_fault # "none") =>
    /\ (pc = "raised" => llm_calls = 1)
    /\ (ner_calls = 1 => (ner_output = Some(EmptyProfile) /\ exc # Some("RuntimeError")))

\* C13: when the call of the intent extractor fails or times out, the
\* pipeline goes on with the intent whose fields are all null; the failure
\* is not propagated.
C13_IntentFailureNullIntent ==
  (llm_fault \in {"APIError", "APITimeoutError"} /\ llm_calls = 1) =>
    /\ pc # "raised"
    /\ exc = None
    /\ intent = NullIntent

\* C14: output of the intent extractor that is not valid JSON gives the
\* intent whose fields are all null and no crash, and the filter holds no
\* experience clause outside VALID_EXPERIENCE and no work_type clause outside
\* VALID_WORK_TYPES.
C14_MalformedOutputIsAbsent ==
  /\ (llm_fault = "JSONDecodeError" /\ llm_calls = 1) =>
       (pc # "raised" /\ intent = NullIntent)
  /\ \A i \in 1..Len(where_clauses) :
       LET c == where_clauses[i] IN
       /\ "experience" \in DOMAIN c => c.experience \in VALID_EXPERIENCE
       /\ "work_type" \in DOMAIN c => c.work_type \in VALID_WORK_TYPES

\* the stages of one invocation, in the order of the source
StageOrder ==
  IF NER_applied
  THEN <<"text", "profile", "intent", "locations", "filter", "query", "search">>
  ELSE <<"text", "intent", "locations", "filter", "query", "search">>

C17_EmptyTextStillSearches ==
  (file_path = TempPath /\ pc # "A") =>
    /\ resume_text = <<>>
    /\ pc = "raised" => (exc # Some("RuntimeError") /\
                         (llm_fault # "none" \/ store_fault # "none"))
    /\ pc \notin {"done", "raised"} => ENABLED Next
    /\ llm_calls >= 1 =>
         /\ llm_calls = 1
         /\ combined_input = [resume |-> <<>>, preferences |-> additional_query]
    /\ store_requests # <<>> =>
         /\ final_where = FinalWhere(WhereClauses(llm_reply, UNIQUE_LOCATIONS))
         /\ store_requests = <<[query_texts |-> <<rich_query>>, n_results |-> N_RESULTS,
                                where |-> final_where]>>

C17_Witness ==
  /\ file_path = TempPath
  /\ additional_query = Jobs
  /\ pc = "done"
  /\ llm_calls = 1
  /\ combined_input = [resume |-> <<>>, preferences |-> Jobs]
  /\ Len(store_requests) = 1
  /\ ret[1][1] # None

\* C11: a failure of the vector-store query ends the invocation in an error
\* that differs from the empty result: the call raises, the caller is handed
\* no (None, intent), and the UI reports no "no matches" for it.
C11_StoreFailureIsNotNoMatches ==
  \A s \in Sessions :
    /\ (sess_out[s] # None /\ svc[s].llm_fault = "none" /\ svc[s].store_fault # "none") =>
         /\ sess_out[s][1].kind = "raised"
         /\ sess_out[s][1].exc = Some(svc[s].store_fault)
         /\ sess_out[s][1].request # None
    /\ svc[s].store_fault # "none" =>
         /\ \A i \in 1..Len(shown[s]) : shown[s][i] \in {"warning", "exception"}
         /\ \A i \in 1..Len(messages[s]) : messages[s][i].role = "user"
    /\ \A i \in 1..Len(shown[s]) :
         shown[s][i] = "no_matches" =>
           (svc[s].llm_fault = "none" /\ svc[s].store_fault = "none"
            /\ svc[s].store_reply = <<>>)

C11_Witness ==
  \E s \in Sessions :
    /\ svc[s].store_fault = "StoreError"
    /\ uploaded_file[s] # None
    /\ app_pc[s] = "idle"
    /\ sess_out[s] # None
    /\ sess_out[s][1].kind = "raised"
    /\ shown[s] = <<"exception">>
    /\ Len(messages[s]) = 1

\* C15: concurrent requests share only read-only state: from the moment a
\* request has saved its upload until its pipeline extracts the text, the
\* file the pipeline is given holds that request's upload.
C15_RequestsShareNoWritableState ==
  \A s \in Sessions : app_pc[s] = "saved" => temp_resume = uploaded_file[s]

\* C20: the resume text the pipeline extracts for a prompt with an uploaded
\* PDF or DOCX, and hands to intent extraction, is the text of the upload.
C20_UploadedTextIsProcessed ==
  \A s \in Sessions :
    /\ app_pc[s] \in {"search", "render"} => sess_text[s] = uploaded_file[s][1].text
    /\ sess_out[s] # None =>
         sess_out[s][1].combined_input.resume
           = Prefix(uploaded_file[s][1].text, RESUME_PREFIX)

\* C18: with the cache and the index built from the same postings file,
\* every location get_fuzzy_locations returns is the location metadata of an
\* indexed posting, so no expansion consists only of values no posting has.
C18_ExpansionWithinIndex ==
  pc = "fuzzy_done" =>
    /\ \A i \in 1..Len(fuzzy_ret) : fuzzy_ret[i] \in Range(collection_meta)
    /\ fuzzy_ret # <<>> => \E i \in 1..Len(fuzzy_ret) : fuzzy_ret[i] \in Range(collection_meta)

\* no two entries equal ignoring case
NoCaseDuplicates(out) ==
  \A i, j \in 1..Len(out) : i < j => Lower(out[i]) # Lower(out[j])

\* the place in src where x first occurs, ignoring case
FirstOccurrence(src, x) ==
  CHOOSE i \in 1..Len(src) :
    Lower(src[i]) = Lower(x) /\ \A j \in 1..(i - 1) : Lower(src[j]) # Lower(x)

\* out lists entries of src as they are spelled where they first occur, in
\* the order of those first occurrences, and at most max of them, the
\* earliest: an entry of src of two or more characters is missing from out
\* only when out is full and the entry first occurs later
FirstSeenOrder(out, src, max) ==
  /\ \A k \in 1..Len(out) :
       /\ \E i \in 1..Len(src) : Lower(src[i]) = Lower(out[k])
       /\ out[k] = src[FirstOccurrence(src, out[k])]
  /\ \A k1, k2 \in 1..Len(out) :
       k1 < k2 => FirstOccurrence(src, out[k1]) < FirstOccurrence(src, out[k2])
  /\ Len(out) <= max
  /\ \A i \in 1..Len(src) :
       (Len(src[i]) >= 2 /\ \A k \in 1..Len(out) : Lower(out[k]) # Lower(src[i]))
       => /\ Len(out) = max
          /\ \A k \in 1..Len(out) : FirstOccurrence(src, out[k]) < i

\* C19: each of the four lists parse_resume_ner_bert returns holds no two
\* entries equal ignoring case, in the order of their first occurrence in the
\* model output; the cut to max_roles and max_skills keeps the earliest.
C19_UniqueFirstSeen ==
  pc = "ner_done" =>
    LET p == ner_profile[1] IN
    /\ NoCaseDuplicates(p.roles) /\ NoCaseDuplicates(p.skills)
    /\ NoCaseDuplicates(p.education) /\ NoCaseDuplicates(p.locations)
    /\ FirstSeenOrder(p.roles, collected.roles, max_roles)
    /\ FirstSeenOrder(p.skills, collected.skills, max_skills)
    /\ FirstSeenOrder(p.education, collected.education, Len(collected.education) + 1)
    /\ FirstSeenOrder(p.locations, collected.locations, Len(collected.locations) + 1)

C19_Witness ==
  /\ pc = "ner_done"
  /\ ner_items = <<[entity_group |-> "Skills", word |-> GoCommaPy, score |-> 90],
                   [entity_group |-> "Skills", word |-> GoUpper, score |-> 90]>>
  /\ collected.skills = <<Go, <<"p", "y">>, GoUpper>>
  /\ max_skills = 50
  /\ ner_profile[1].skills = <<Go, <<"p", "y">>>>

\* the starts of the windows of a text of more than max_tokens tokens whose
\* decoded text is not blank, in order
KeptWindows ==
  SelectSeq([k \in 1..Len(tokens) |-> (k - 1) * (max_tokens - overlap)],
            LAMBDA st : /\ st < Len(tokens)
                        /\ decode(Slice(tokens, st, st + max_tokens)) # <<>>)

ChunksAsClaimed ==
  pc = "chunk_done" =>
    IF Len(tokens) <= max_tokens THEN chunk_ret = Some(<<tokens>>)
    ELSE /\ \A k \in 1..Len(chunk_ret[1]) : Len(chunk_ret[1][k]) <= max_tokens
         /\ Len(chunk_starts) = Len(chunk_ret[1])
         /\ \A q \in 1..Len(tokens) :
              \E k \in 1..Len(chunk_starts) :
                chunk_starts[k] < q /\ q <= chunk_starts[k] + max_tokens
         /\ \A k \in 2..Len(chunk_starts) :
              chunk_starts[k] = chunk_starts[k - 1] + (max_tokens - overlap)

\* C21: for max_tokens > overlap >= 0, _chunk_text terminates; each chunk
\* holds at most max_tokens tokens, every token position lies in a chunk,
\* each chunk after the first begins max_tokens - overlap tokens after the
\* previous one, and a text of at most max_tokens tokens is one chunk.
C21_EveryPositionChunked == [](ChunksAsClaimed) /\ <>(pc = "chunk_done")

ChunksOfKeptWindows ==
  pc = "chunk_done" =>
    IF Len(tokens) <= max_tokens \/ KeptWindows = <<>> THEN chunk_ret = Some(<<tokens>>)
    ELSE /\ chunk_starts = KeptWindows
         /\ chunk_ret = Some([k \in 1..Len(KeptWindows) |->
              decode(Slice(tokens, KeptWindows[k], KeptWindows[k] + max_tokens))])
         /\ \A k \in 1..Len(chunk_ret[1]) : Len(chunk_ret[1][k]) <= max_tokens
         /\ \A q \in 1..Len(tokens) :
              tokens[q] # UNK =>
                \E k \in 1..Len(chunk_starts) :
                  chunk_starts[k] < q /\ q <= chunk_starts[k] + max_tokens
         /\ \A k \in 2..Len(chunk_starts) :
              /\ chunk_starts[k] > chunk_starts[k - 1]
              /\ (chunk_starts[k] - chunk_starts[k - 1]) % (max_tokens - overlap) = 0

\* C21 amended: _chunk_text terminates; the chunks are the windows of
\* max_tokens tokens starting every max_tokens - overlap tokens, in order,
\* except the windows whose decoded text is blank, which are left out; every
\* position holding a token that decodes to text lies in a chunk; a text of
\* at most max_tokens tokens, or with no window left, is returned whole.
C21_NonBlankWindowsChunked == [](ChunksOfKeptWindows) /\ <>(pc = "chunk_done")

C21_Witness ==
  /\ pc = "chunk_done"
  /\ tokens = <<"w", UNK, UNK, "w">>
  /\ max_tokens = 2
  /\ overlap = 1
  /\ chunk_starts = <<0, 2, 3>>
  /\ chunk_ret = Some(<<<<"w">>, <<"w">>, <<"w">>>>)

\* two replies of the intent extractor agreeing on what the filter is built of
AgreeOnFilterInputs(i1, i2) ==
  /\ i1.experience = i2.experience
  /\ i1.work_type = i2.work_type
  /\ i1.location = i2.location

\* C22: two invocations over the same location cache whose intents agree on
\* experience, work_type and location send the same filter to the vector
\* store, whatever their titles, companies, additional queries, fusion flags
\* and resume profiles; no clause is about the company.
C22_FilterDependsOnHardFieldsOnly ==
  /\ \A h \in 1..Len(history) :
       (Len(store_requests) > Len(history)
        /\ AgreeOnFilterInputs(history[h].llm_reply, llm_reply))
       => store_requests[Len(store_requests)].where = history[h].where
  /\ \A k \in 1..Len(store_requests) :
       \A c \in Range(ClausesOf(store_requests[k].where)) :
         DOMAIN c \subseteq {"experience", "work_type", "location"}

C22_Witness ==
  /\ Len(history) = 1
  /\ Len(store_requests) = 2
  /\ AgreeOnFilterInputs(history[1].llm_reply, llm_reply)
  /\ history[1].llm_reply.title # llm_reply.title
  /\ history[1].llm_reply.company # llm_reply.company
  /\ history[1].additional_query # additional_query
  /\ history[1].NER_applied # NER_applied
  /\ history[1].ner_reply # ner_reply
  /\ store_requests[1].where # None
  /\ DOMAIN store_requests[1].where[1] = {"and"}
  /\ store_requests[2].where = store_requests[1].where
  /\ store_requests[2].query_texts # store_requests[1].query_texts

\* the roles of the messages a session holds once the prompts whose outcomes
\* are listed have been handled: a user message each, and an assistant
\* message after it where the outcome is one of answered
RECURSIVE RolesAfter(_, _)
RolesAfter(outcomes, answered) ==
  IF outcomes = <<>> THEN <<>>
  ELSE <<"user">> \o (IF Head(outcomes) \in answered THEN <<"assistant">> ELSE <<>>)
       \o RolesAfter(Tail(outcomes), answered)

Outcomes == {"warning", "exception", "no_matches", "matches"}

RolesOf(msgs) == [k \in 1..Len(msgs) |-> msgs[k].role]

\* the prompt being handled has added its user message and nothing else yet
InHand(s) == IF app_pc[s] = "idle" THEN <<>> ELSE <<"user">>

\* calls of the pipeline a session has made: one per handled prompt that did
\* not end in the warning, and the one under way
CallsExpected(s) ==
  Cardinality({k \in 1..Len(shown[s]) : shown[s][k] # "warning"})
  + (IF app_pc[s] \in {"search", "render"} THEN 1 ELSE 0)

AppendOnly ==
  \A s \in Sessions :
    /\ Len(messages[s]) <= Len(messages'[s])
    /\ SubSeq(messages'[s], 1, Len(messages[s])) = messages[s]

MessagesAsClaimed ==
  \A s \in Sessions :
    /\ RolesOf(messages[s])
         = RolesAfter(shown[s], IF uploaded_file[s] # None THEN Outcomes ELSE {})
             \o InHand(s)
    /\ runs[s] = (IF uploaded_file[s] # None THEN CallsExpected(s) ELSE 0)
    /\ uploaded_file[s] = None => \A k \in 1..Len(shown[s]) : shown[s][k] = "warning"

\* C23: the message history of a session is append-only; each prompt appends
\* one user message; with a resume uploaded the pipeline is invoked once and
\* one assistant message follows the user message, and without a resume no
\* pipeline is invoked and no assistant message is appended.
C23_OneAnswerPerUploadedPrompt == [](MessagesAsClaimed) /\ [][AppendOnly]_vars

MessagesAsRendered ==
  \A s \in Sessions :
    /\ RolesOf(messages[s])
         = RolesAfter(shown[s], {"no_matches", "matches"}) \o InHand(s)
    /\ runs[s] = (IF uploaded_file[s] # None THEN CallsExpected(s) ELSE 0)
    /\ \A k \in 1..Len(shown[s]) :
         /\ shown[s][k] = "warning" <=> uploaded_file[s] = None
         /\ shown[s][k] = "exception" <=>
              (uploaded_file[s] # None
               /\ (svc[s].llm_fault # "none" \/ svc[s].store_fault # "none"))

\* C23 amended: as stated, except that a prompt with a resume uploaded whose
\* pipeline call raises (the intent extractor or the vector store failing)
\* appends no assistant message: the pipeline was invoked once and the user
\* message stays the last of the history.
C23_OneAnswerPerReturnedCall == [](MessagesAsRendered) /\ [][AppendOnly]_vars

C23_Witness ==
  \E s, t \in Sessions :
    /\ app_pc[s] = "idle" /\ app_pc[t] = "idle"
    /\ uploaded_file[s] # None /\ uploaded_file[t] # None
    /\ shown[s] = <<"matches", "matches">>
    /\ RolesOf(messages[s]) = <<"user", "assistant", "user", "assistant">>
    /\ runs[s] = 2
    /\ shown[t] = <<"exception", "exception">>
    /\ RolesOf(messages[t]) = <<"user", "user">>
    /\ runs[t] = 2

====
